---- MODULE Spec2Model ----
(***************************************************************************)
(* Gram-Schmidt QR engines of gramschmidt-rs (cgs.rs, cgs2.rs, mgs.rs),    *)
(* the layout resolver of utils.rs and the row-wise engines of lib.rs and  *)
(* parallel.rs.                                                            *)
(*                                                                         *)
(* Numbers are exact rationals <<n, d>> (d > 0, lowest terms); <<0, 0>>    *)
(* stands for a non-finite f64 (inf or NaN).  Matrices are ndarray arrays: *)
(* a shape, a pair of strides and a flat buffer indexed from 0, so that    *)
(* the raw-slice / BLAS calls of the engines are modelled element offset   *)
(* by element offset.                                                      *)
(***************************************************************************)
EXTENDS Integers, Sequences, FiniteSets, TLC

VARIABLES
    kind,          \* which engine: "CGS", "CGS2" or "MGS"; "none" before construction
    q,             \* self.q
    r,             \* self.r
    work_vector,   \* self.work_vector (CGS2 only; <<>> for the other engines)
    memory_order,  \* self.memory_order
    dirty,         \* self.dirty (CGS, CGS2)
    pc,            \* "new", "idle", "running" (inside compute's column loop), "panic"
    err,           \* the panic message, "" when none
    i,             \* loop variable of compute
    a,             \* the argument of the current (or last) compute call
    a_prev,        \* the argument of the call before it
    entry,         \* q and r as they were when the current (or last) call was entered
    calls,         \* number of compute calls that have returned
    exact,         \* FALSE once a norm was irrational and had to be rounded
    view,          \* layout resolver: the array under test
    res,           \* layout resolver: what each of the three resolvers answered
    api,           \* row-wise engines: the entry point that was called; "none" otherwise
    orth,          \* row-wise engines: the matrix orthonormalised in place
    norm,          \* row-wise engines: the vector of norms
    todo,          \* parallel engine: first row of the view todo
    tasks,         \* parallel engine: the items of the parallel iterator over todo
    workers,       \* parallel engine: number of threads of the pool
    v_before       \* parallel engine: row i as it was before its normalisation

vars == <<kind, q, r, work_vector, memory_order, dirty, pc, err, i, a, a_prev,
          entry, calls, exact, view, res, api, orth, norm, todo, tasks, workers, v_before>>

engine_vars == <<kind, q, r, work_vector, memory_order, dirty>>
call_vars == <<pc, err, i, a, a_prev, entry, calls, exact>>
layout_vars == <<view, res>>
row_vars == <<api, orth, norm, todo, tasks, workers, v_before>>

----------------------------------------------------------------------------
(* Bounds of the model *)

MaxCalls == 2        \* compute calls per engine instance
MaxDim == 3          \* layout resolver: largest axis length tried
MaxStride == 4       \* layout resolver: largest stride tried
SqrtScale == 100     \* an irrational norm of n/d is rounded down to a multiple of 1/(d*SqrtScale)

----------------------------------------------------------------------------
(* Rational arithmetic *)

RECURSIVE GCD(_, _)
GCD(x, y) == IF y = 0 THEN x ELSE GCD(y, x % y)

Abs(x) == IF x < 0 THEN -x ELSE x

NonFinite == <<0, 0>>

IsFinite(x) == x[2] # 0

Reduce(n, d) ==
    LET g == GCD(Abs(n), Abs(d))
        s == IF d < 0 THEN -1 ELSE 1
    IN  IF d = 0 THEN NonFinite ELSE <<s * (n \div g), s * (d \div g)>>

Rat(n) == <<n, 1>>
Zero == Rat(0)
One == Rat(1)

RAdd(x, y) == IF IsFinite(x) /\ IsFinite(y)
              THEN Reduce(x[1] * y[2] + y[1] * x[2], x[2] * y[2]) ELSE NonFinite
RNeg(x) == IF IsFinite(x) THEN <<-x[1], x[2]>> ELSE NonFinite
RSub(x, y) == RAdd(x, RNeg(y))
RMul(x, y) == IF IsFinite(x) /\ IsFinite(y)
              THEN Reduce(x[1] * y[1], x[2] * y[2]) ELSE NonFinite
\* f64 division: x / 0 is inf or NaN, never a panic
RDiv(x, y) == IF IsFinite(x) /\ IsFinite(y)
              THEN Reduce(x[1] * y[2], x[2] * y[1]) ELSE NonFinite

\* largest k with k * k <= n, by bisection on lo..hi
RECURSIVE ISqrtIn(_, _, _)
ISqrtIn(n, lo, hi) ==
    IF lo >= hi THEN lo
    ELSE LET mid == (lo + hi + 1) \div 2
         IN  IF mid * mid <= n THEN ISqrtIn(n, mid, hi) ELSE ISqrtIn(n, lo, mid - 1)

ISqrt(n) == ISqrtIn(n, 0, IF n < 46340 THEN n ELSE 46340)

IsSquare(n) == ISqrt(n) * ISqrt(n) = n

\* x has a rational square root
HasRationalSqrt(x) == IsFinite(x) /\ x[1] >= 0 /\ IsSquare(x[1]) /\ IsSquare(x[2])

\* the square root: exact when it is rational, rounded down otherwise
RSqrt(x) ==
    IF ~IsFinite(x) \/ x[1] < 0 THEN NonFinite
    ELSE IF HasRationalSqrt(x) THEN <<ISqrt(x[1]), ISqrt(x[2])>>
    ELSE Reduce(ISqrt(x[1] * x[2] * SqrtScale * SqrtScale), x[2] * SqrtScale)

RECURSIVE RSum(_)
RSum(s) == IF s = <<>> THEN Zero ELSE RAdd(Head(s), RSum(Tail(s)))

\* sum of f[0] .. f[n-1]
SumTo(n, f) == RSum([k \in 1..n |-> f[k - 1]])

\* f itself.  TLC re-evaluates a function expression at every application; the
\* comparison makes it tabulate the function once.
Table(f) == IF f = f THEN f ELSE f

----------------------------------------------------------------------------
(* ndarray arrays *)

NoArray == [dim |-> <<0, 0>>, strides |-> <<0, 0>>, data |-> <<>>]

Rows(x) == x.dim[1]
Cols(x) == x.dim[2]
NElems(x) == Rows(x) * Cols(x)

\* offset of element (row, col) in the buffer
Off(x, row, col) == row * x.strides[1] + col * x.strides[2]
At(x, row, col) == x.data[Off(x, row, col)]

\* Dimension::default_strides: the C-order strides of a shape
DefaultStrides(dim) == <<dim[2], 1>>
FortranStrides(dim) == <<1, dim[1]>>

\* ArrayBase::is_standard_layout, which decides as_slice(): an axis of length 1
\* may have any stride
as_slice(x) ==
    \A ax \in 1..2 : x.dim[ax] = 1 \/ x.strides[ax] = DefaultStrides(x.dim)[ax]

\* Dimension::is_contiguous, which decides as_slice_memory_order(): walk the axes
\* from the fastest varying one
as_slice_memory_order(x) ==
    \/ x.strides = DefaultStrides(x.dim)
    \/ LET first == IF x.strides[1] <= x.strides[2] THEN 1 ELSE 2
           second == 3 - first
       IN  /\ x.dim[first] = 1 \/ x.strides[first] = 1
           /\ x.dim[second] = 1 \/ x.strides[second] = x.dim[first]

\* Array2::zeros(shape.set_f(is_fortran))
zeros(dim, is_fortran) ==
    [dim |-> dim,
     strides |-> IF is_fortran THEN FortranStrides(dim) ELSE DefaultStrides(dim),
     data |-> [k \in 0..(dim[1] * dim[2] - 1) |-> Zero]]

\* Array1::zeros(n)
zeros1(n) == [k \in 0..(n - 1) |-> Zero]

----------------------------------------------------------------------------
(* utils.rs: the layout resolver *)

get_layout_swapped(x) ==
    IF as_slice_memory_order(x) THEN "ColumnMajor"
    ELSE IF as_slice(x) THEN "RowMajor"
    ELSE "None"

get_layout(x) ==
    IF as_slice(x) THEN "RowMajor"
    ELSE IF as_slice_memory_order(x) THEN "ColumnMajor"
    ELSE "None"

\* the slice is represented by its length
as_slice_with_layout(x) ==
    IF as_slice(x) THEN [slice |-> NElems(x), layout |-> "RowMajor"]
    ELSE IF as_slice_memory_order(x) THEN [slice |-> NElems(x), layout |-> "ColumnMajor"]
    ELSE [slice |-> 0, layout |-> "None"]

----------------------------------------------------------------------------
(* BLAS, on flat buffers.  A Rust slice buf[off..] is the pair (buf, off). *)

\* a read past the end of a buffer yields an arbitrary value: poison
Get(buf, k) == IF k \in DOMAIN buf THEN buf[k] ELSE NonFinite

\* element (row, col) of the matrix that dgemv sees in buffer A
El(layout, A, lda, row, col) ==
    IF layout = "RowMajor" THEN Get(A, row * lda + col) ELSE Get(A, row + col * lda)

\* y := alpha * op(A) * x + beta * y, A an m x n matrix with leading dimension lda;
\* op(A) is A for transa = "None" and its transpose for transa = "Ordinary".
\* With beta = 0 the old y is not read.
dgemv(layout, transa, m, n, alpha, A, lda, x, xoff, incx, beta, y, yoff, incy) ==
    LET lenx == IF transa = "Ordinary" THEN m ELSE n
        leny == IF transa = "Ordinary" THEN n ELSE m
        terms(j) == [k \in 0..(lenx - 1) |->
                        RMul(IF transa = "Ordinary" THEN El(layout, A, lda, k, j)
                                                    ELSE El(layout, A, lda, j, k),
                             Get(x, xoff + k * incx))]
        val(j) == RAdd(RMul(alpha, SumTo(lenx, terms(j))),
                       IF beta = Zero THEN Zero ELSE RMul(beta, y[yoff + j * incy]))
    IN  Table([k \in DOMAIN y |->
                  IF k >= yoff /\ (k - yoff) % incy = 0 /\ (k - yoff) \div incy < leny
                  THEN val((k - yoff) \div incy) ELSE y[k]])

\* y := alpha * x + y over n elements
daxpy(n, alpha, x, xoff, incx, y, yoff, incy) ==
    Table([k \in DOMAIN y |->
              IF k >= yoff /\ (k - yoff) % incy = 0 /\ (k - yoff) \div incy < n
              THEN RAdd(RMul(alpha, Get(x, xoff + ((k - yoff) \div incy) * incx)), y[k])
              ELSE y[k]])

\* the square of the Euclidean norm of n elements
nrm2sq(n, x, xoff, incx) ==
    SumTo(n, [k \in 0..(n - 1) |-> RMul(Get(x, xoff + k * incx), Get(x, xoff + k * incx))])

dnrm2(n, x, xoff, incx) == RSqrt(nrm2sq(n, x, xoff, incx))

----------------------------------------------------------------------------
(* ndarray views used by the engines *)

\* x.column(col), as a vector indexed from 0
Column(x, col) == Table([row \in 0..(Rows(x) - 1) |-> At(x, row, col)])

\* x.column_mut(col).assign(vec); a vector of length 1 is broadcast
AssignColumn(x, col, vec) ==
    [x EXCEPT !.data =
        Table([k \in DOMAIN x.data |->
                  IF \E row \in 0..(Rows(x) - 1) : k = Off(x, row, col)
                  THEN LET row == CHOOSE rr \in 0..(Rows(x) - 1) : k = Off(x, rr, col)
                       IN  IF DOMAIN vec = {0} THEN vec[0] ELSE vec[row]
                  ELSE x.data[k]])]

\* x[(row, col)] = v
SetAt(x, row, col, v) == [x EXCEPT !.data[Off(x, row, col)] = v]

\* ArrayBase::dot of two vectors
Dot(v, w) == SumTo(Cardinality(DOMAIN v), [k \in DOMAIN v |-> RMul(v[k], w[k])])

\* v.scaled_add(alpha, w)
ScaledAdd(v, alpha, w) == Table([k \in DOMAIN v |-> RAdd(v[k], RMul(alpha, w[k]))])

\* v /= s
DivVec(v, s) == Table([k \in DOMAIN v |-> RDiv(v[k], s)])

\* the logical matrix of an array: rows of entries
Mat(x) == [row \in 0..(Rows(x) - 1) |-> [col \in 0..(Cols(x) - 1) |-> At(x, row, col)]]

----------------------------------------------------------------------------
(* The matrices handed to the engines *)

\* arr2(rows): a row-major array
arr2(rows) ==
    LET m == Len(rows)
        n == Len(rows[1])
    IN  [dim |-> <<m, n>>, strides |-> <<n, 1>>,
         data |-> [k \in 0..(m * n - 1) |-> Rat(rows[(k \div n) + 1][(k % n) + 1])]]

\* the same matrix in Fortran order (Array2::from_shape_fn((m, n).f(), ..))
arr2_f(rows) ==
    LET m == Len(rows)
        n == Len(rows[1])
    IN  [dim |-> <<m, n>>, strides |-> <<1, m>>,
         data |-> [k \in 0..(m * n - 1) |-> Rat(rows[(k % m) + 1][(k \div m) + 1])]]

\* the same matrix as a view of the first n columns of an m x (n+1) row-major
\* array: not contiguous
arr2_view(rows) ==
    LET m == Len(rows)
        n == Len(rows[1])
    IN  [dim |-> <<m, n>>, strides |-> <<n + 1, 1>>,
         data |-> [k \in 0..(m * (n + 1) - 1) |->
                     IF k % (n + 1) = n THEN Zero
                     ELSE Rat(rows[(k \div (n + 1)) + 1][(k % (n + 1)) + 1])]]

Unity(n) == [row \in 1..n |-> [col \in 1..n |-> IF row = col THEN 1 ELSE 0]]

UNITY == Unity(4)
UNITY2 == Unity(2)
\* Q = (1/5) [[4, -3], [3, 4]], R = [[5, 6/5], [0, 8/5]]
SMALL2 == << <<4, 0>>,
             <<3, 2>> >>
\* Q = (1/3) [[2, 1], [2, -2], [1, 2]], R = [[3, 3], [0, 3]]
TALL == << <<2, 3>>,
           <<2, 0>>,
           <<1, 3>> >>
\* upper triangular: Q = I, R = the matrix itself
TRIANGULAR == << <<1, 0, 0, 0>>,
                 <<0, 1, 0, 0>>,
                 <<0, 0, 1, 2>>,
                 <<0, 0, 0, 1>> >>
\* a single column, narrower than every engine of the model
NARROW == << <<3>>,
             <<4>> >>

Matrices == {UNITY, UNITY2, SMALL2, TALL, TRIANGULAR}

ContiguousInputs == {arr2(m) : m \in Matrices} \cup {arr2_f(m) : m \in Matrices}

Inputs == ContiguousInputs \cup {arr2_view(m) : m \in {SMALL2, TALL}} \cup {arr2(NARROW)}

Shapes == {x.dim : x \in ContiguousInputs}

Kinds == {"CGS", "CGS2", "MGS"}

----------------------------------------------------------------------------
(* Construction *)

\* from_matrix of the three engines; work_vector exists in CGS2 only
from_matrix(k, x) ==
    IF ~as_slice(x) /\ ~as_slice_memory_order(x)
    THEN [panic |-> "Array not contiguous!"]
    ELSE LET is_fortran == ~as_slice(x)
         IN  [panic |-> "",
              q |-> zeros(x.dim, is_fortran),
              r |-> zeros(x.dim, is_fortran),
              work_vector |-> IF k = "CGS2" THEN zeros1(x.dim[1]) ELSE <<>>,
              memory_order |-> IF is_fortran THEN "ColumnMajor" ELSE "RowMajor",
              dirty |-> FALSE]

\* from_shape of the three engines
from_shape(k, shape, fortran_order) ==
    [panic |-> "",
     q |-> zeros(shape, fortran_order),
     r |-> zeros(shape, fortran_order),
     work_vector |-> IF k = "CGS2" THEN zeros1(shape[1]) ELSE <<>>,
     memory_order |-> IF fortran_order THEN "ColumnMajor" ELSE "RowMajor",
     dirty |-> FALSE]

NoResult == [get_layout |-> "unset", as_slice_with_layout |-> "unset", from_matrix |-> "unset"]

\* the row-wise engines are not in use
NoRowEngine ==
    /\ api = "none"
    /\ orth = NoArray
    /\ norm = <<>>
    /\ todo = 0
    /\ tasks = <<>>
    /\ workers = 0
    /\ v_before = <<>>

Constructed(k, e) ==
    /\ kind = k
    /\ q = e.q
    /\ r = e.r
    /\ work_vector = e.work_vector
    /\ memory_order = e.memory_order
    /\ dirty = e.dirty

Init ==
    /\ \E k \in Kinds :
          \/ \E x \in ContiguousInputs : Constructed(k, from_matrix(k, x))
          \/ \E shape \in Shapes, f \in BOOLEAN : Constructed(k, from_shape(k, shape, f))
    /\ pc = "idle"
    /\ err = ""
    /\ i = 0
    /\ a = NoArray
    /\ a_prev = NoArray
    /\ entry = [q |-> q, r |-> r]
    /\ calls = 0
    /\ exact = TRUE
    /\ view = NoArray
    /\ res = NoResult
    /\ NoRowEngine

----------------------------------------------------------------------------
(* cgs.rs and cgs2.rs: the pieces of compute *)

\* incx of the input's column: n_cols for a C-order input, 1 otherwise
a_column_inc(x, n_cols) == IF as_slice(x) THEN n_cols ELSE 1

\* the layout recorded for the input: both branches of the source give RowMajor
a_layout(x) == IF as_slice(x) THEN "RowMajor" ELSE "RowMajor"

\* offset at which the slice a_column starts in the input's buffer
a_column(x, n_rows, col) == IF a_layout(x) = "RowMajor" THEN col ELSE n_rows * col

lda(mo, n_rows, n_cols) == IF mo = "RowMajor" THEN n_cols ELSE n_rows

\* offset at which the slices r_column and q_column start, and their increments
r_column(mo, n_rows, col) == IF mo = "RowMajor" THEN col ELSE n_rows * col
\* an increment for r_column one larger than the row length
r_inc_wide(mo, n_cols) == IF mo = "RowMajor" THEN n_cols + 1 ELSE 1
r_inc(mo, n_cols) == IF mo = "RowMajor" THEN n_cols ELSE 1
\* the offset of the column before column col, of column 0 for col = 0
q_column_previous(mo, n_rows, col) ==
    LET previous == IF col = 0 THEN 0 ELSE col - 1
    IN  IF mo = "RowMajor" THEN previous ELSE n_rows * previous
q_column(mo, n_rows, col) == IF mo = "RowMajor" THEN col ELSE n_rows * col
q_inc(mo, n_cols) == IF mo = "RowMajor" THEN n_cols ELSE 1

\* self.r.fill(0.0)
fill0(x) == [x EXCEPT !.data = [k \in DOMAIN x.data |-> Zero]]

\* the dgemv pair with beta = 1 in the first product: the coefficients are
\* accumulated onto what the column of r held
cgs_project_accumulate(qq, rr, mo, x, col) ==
    LET n_rows == Rows(qq)
        n_cols == Cols(qq)
        r1 == dgemv(mo, "Ordinary", n_rows, col, One, qq.data, lda(mo, n_rows, n_cols),
                    x.data, a_column(x, n_rows, col), a_column_inc(x, n_cols),
                    One, rr.data, r_column(mo, n_rows, col), r_inc(mo, n_cols))
        q1 == dgemv(mo, "None", n_rows, col, RNeg(One), qq.data, lda(mo, n_rows, n_cols),
                    r1, r_column(mo, n_rows, col), r_inc(mo, n_cols),
                    One, qq.data, q_column(mo, n_rows, col), q_inc(mo, n_cols))
    IN  [q |-> [qq EXCEPT !.data = q1], r |-> [rr EXCEPT !.data = r1]]

\* the dgemv pair of iteration col > 0: the coefficients r[0..col, col] from the
\* input's column, then the correction of q's column
cgs_project(qq, rr, mo, x, col) ==
    LET n_rows == Rows(qq)
        n_cols == Cols(qq)
        r1 == dgemv(mo, "Ordinary", n_rows, col, One, qq.data, lda(mo, n_rows, n_cols),
                    x.data, a_column(x, n_rows, col), a_column_inc(x, n_cols),
                    Zero, rr.data, r_column(mo, n_rows, col), r_inc(mo, n_cols))
        q1 == dgemv(mo, "None", n_rows, col, RNeg(One), qq.data, lda(mo, n_rows, n_cols),
                    r1, r_column(mo, n_rows, col), r_inc(mo, n_cols),
                    One, qq.data, q_column(mo, n_rows, col), q_inc(mo, n_cols))
    IN  [q |-> [qq EXCEPT !.data = q1], r |-> [rr EXCEPT !.data = r1]]

\* the second dgemv pair without the daxpy: the coefficients of the second pass
\* stay in the scratch vector
cgs2_reorthogonalize_no_sum(qq, rr, ww, mo, col) ==
    LET n_rows == Rows(qq)
        n_cols == Cols(qq)
        w1 == dgemv(mo, "Ordinary", n_rows, col, One, qq.data, lda(mo, n_rows, n_cols),
                    qq.data, q_column(mo, n_rows, col), q_inc(mo, n_cols),
                    Zero, ww, 0, 1)
        q1 == dgemv(mo, "None", n_rows, col, RNeg(One), qq.data, lda(mo, n_rows, n_cols),
                    w1, 0, 1,
                    One, qq.data, q_column(mo, n_rows, col), q_inc(mo, n_cols))
    IN  [q |-> [qq EXCEPT !.data = q1], r |-> rr, work_vector |-> w1]

\* cgs2.rs: the second dgemv pair and the daxpy of iteration col > 0
cgs2_reorthogonalize(qq, rr, ww, mo, col) ==
    LET n_rows == Rows(qq)
        n_cols == Cols(qq)
        w1 == dgemv(mo, "Ordinary", n_rows, col, One, qq.data, lda(mo, n_rows, n_cols),
                    qq.data, q_column(mo, n_rows, col), q_inc(mo, n_cols),
                    Zero, ww, 0, 1)
        q1 == dgemv(mo, "None", n_rows, col, RNeg(One), qq.data, lda(mo, n_rows, n_cols),
                    w1, 0, 1,
                    One, qq.data, q_column(mo, n_rows, col), q_inc(mo, n_cols))
        r1 == daxpy(n_rows, One, w1, 0, 1, rr.data, r_column(mo, n_rows, col), r_inc(mo, n_cols))
    IN  [q |-> [qq EXCEPT !.data = q1], r |-> [rr EXCEPT !.data = r1], work_vector |-> w1]

\* the squared norm of q's column col, read through the raw slice
cgs_normsq(qq, mo, col) ==
    nrm2sq(Rows(qq), qq.data, q_column(mo, Rows(qq), col), q_inc(mo, Cols(qq)))

\* the diagonal taken from the column before it is divided by its norm
cgs_normalize_early(qq, rr, mo, x, col) ==
    LET norm_i == RSqrt(cgs_normsq(qq, mo, col))
        v == DivVec(Column(qq, col), norm_i)
    IN  [q |-> AssignColumn(qq, col, v),
         r |-> SetAt(rr, col, col, Dot(Column(x, col), Column(qq, col)))]

\* v /= norm; self.r[(i,i)] = a.column(i).dot(&v)
cgs_normalize(qq, rr, mo, x, col) ==
    LET norm_i == RSqrt(cgs_normsq(qq, mo, col))
        v == DivVec(Column(qq, col), norm_i)
    IN  [q |-> AssignColumn(qq, col, v), r |-> SetAt(rr, col, col, Dot(Column(x, col), v))]

\* one iteration of the column loop of ClassicalGramSchmidt::compute (k = "CGS")
\* or ReorthogonalizedGramSchmidt::compute (k = "CGS2")
cgs_column(k, qq, rr, ww, mo, x, col) ==
    LET q0 == AssignColumn(qq, col, Column(x, col))
        p1 == IF col > 0 THEN cgs_project(q0, rr, mo, x, col) ELSE [q |-> q0, r |-> rr]
        p2 == IF col > 0 /\ k = "CGS2"
              THEN cgs2_reorthogonalize(p1.q, p1.r, ww, mo, col)
              ELSE [q |-> p1.q, r |-> p1.r, work_vector |-> ww]
        n == cgs_normalize(p2.q, p2.r, mo, x, col)
    IN  [panic |-> "", q |-> n.q, r |-> n.r, work_vector |-> p2.work_vector,
         exact |-> HasRationalSqrt(cgs_normsq(p2.q, mo, col))]

----------------------------------------------------------------------------
(* mgs.rs: the pieces of compute *)

\* the inner loop with the coefficients stored but never subtracted
RECURSIVE mgs_project_no_subtract(_, _, _, _, _)
mgs_project_no_subtract(qq, rr, col, j, cur) ==
    IF j >= col THEN [column |-> cur, r |-> rr]
    ELSE mgs_project_no_subtract(qq, SetAt(rr, j, col, Dot(Column(qq, j), cur)),
                                 col, j + 1, cur)

\* the inner loop over the finished columns j, j+1, .., col-1: cur is
\* q_todo_column, rr is self.r
RECURSIVE mgs_project(_, _, _, _, _)
mgs_project(qq, rr, col, j, cur) ==
    IF j >= col THEN [column |-> cur, r |-> rr]
    ELSE LET q_done_column == Column(qq, j)
             projection_factor == Dot(q_done_column, cur)
         IN  mgs_project(qq, SetAt(rr, j, col, projection_factor), col, j + 1,
                         ScaledAdd(cur, RNeg(projection_factor), q_done_column))

\* the squared norm read through the raw slice, whose offset and increment come
\* from the INPUT's shape (n_rows, n_cols = a.dim())
mgs_normsq(qq, mo, x, col) ==
    nrm2sq(Rows(x), qq.data, q_column(mo, Rows(x), col), q_inc(mo, Cols(x)))

\* one iteration of the column loop of ModifiedGramSchmidt::compute
mgs_column(qq, rr, mo, x, col) ==
    IF col >= Cols(qq)
    THEN [panic |-> "index out of bounds"]           \* q_todo.column_mut(0)
    ELSE IF Rows(x) # Rows(qq) /\ Rows(x) # 1
    THEN [panic |-> "could not broadcast array"]     \* assign(&a.column(i))
    ELSE LET start == Table([row \in 0..(Rows(qq) - 1) |->
                                IF Rows(x) = 1 THEN At(x, 0, col) ELSE At(x, row, col)])
             p == mgs_project(qq, rr, col, 0, start)
             q1 == AssignColumn(qq, col, p.column)
             norm_i == RSqrt(mgs_normsq(q1, mo, x, col))
         IN  [panic |-> "",
              q |-> AssignColumn(q1, col, DivVec(Column(q1, col), norm_i)),
              r |-> SetAt(p.r, col, col, norm_i),
              exact |-> HasRationalSqrt(mgs_normsq(q1, mo, x, col))]

----------------------------------------------------------------------------
(* compute as a whole, for comparing an engine with a freshly constructed one *)

\* the column loop from iteration col on, on the engine state e; stops at a panic
RECURSIVE compute_from(_, _, _, _, _)
compute_from(k, e, mo, x, col) ==
    IF col >= (IF k = "MGS" THEN Cols(x) ELSE Cols(e.q)) THEN e
    ELSE LET step == IF k = "MGS" THEN mgs_column(e.q, e.r, mo, x, col)
                     ELSE cgs_column(k, e.q, e.r, e.work_vector, mo, x, col)
         IN  IF step.panic # "" THEN e
             ELSE compute_from(k, [q |-> step.q, r |-> step.r,
                                   work_vector |-> IF k = "MGS" THEN e.work_vector
                                                   ELSE step.work_vector],
                               mo, x, col + 1)

\* from_shape(shape, fortran_order) followed by compute(x)
compute_fresh(k, shape, mo, x) ==
    compute_from(k, from_shape(k, shape, mo = "ColumnMajor"), mo, x, 0)

----------------------------------------------------------------------------
(* compute, one action per step: entry (the checks before the loop), one
   iteration of the column loop, return *)

Panic(msg) ==
    /\ pc' = "panic"
    /\ err' = msg

\* number of iterations of the loop: self.q.dim().1 in CGS and CGS2, a.dim().1 in MGS
n_iterations == IF kind = "MGS" THEN Cols(a) ELSE Cols(q)

ComputeEnter(x) ==
    /\ pc = "idle"
    /\ calls < MaxCalls
    /\ a' = x
    /\ a_prev' = a
    /\ entry' = [q |-> q, r |-> r]
    /\ i' = 0
    /\ IF kind = "MGS"
       THEN /\ pc' = "running"
            /\ UNCHANGED <<err, r>>
       ELSE IF x.dim # q.dim
       THEN /\ Panic("assertion failed: a.shape() == self.q.shape()")
            /\ UNCHANGED r
       ELSE IF ~as_slice(x) /\ ~as_slice_memory_order(x)
       THEN /\ Panic("Array not contiguous!")
            /\ UNCHANGED r
       ELSE /\ pc' = "running"
            /\ r' = IF dirty THEN fill0(r) ELSE r
            /\ UNCHANGED err
    /\ UNCHANGED <<kind, q, work_vector, memory_order, dirty, calls, exact, view, res, row_vars>>

ComputeColumn ==
    /\ pc = "running"
    /\ i < n_iterations
    /\ \E step \in {IF kind = "MGS" THEN mgs_column(q, r, memory_order, a, i)
                     ELSE cgs_column(kind, q, r, work_vector, memory_order, a, i)} :
           IF step.panic # ""
           THEN /\ Panic(step.panic)
                /\ UNCHANGED <<q, r, work_vector, i, exact>>
           ELSE /\ q' = step.q
                /\ r' = step.r
                /\ work_vector' = IF kind = "MGS" THEN work_vector ELSE step.work_vector
                /\ exact' = (exact /\ step.exact)
                /\ i' = i + 1
                /\ UNCHANGED <<pc, err>>
    /\ UNCHANGED <<kind, memory_order, dirty, a, a_prev, entry, calls, view, res, row_vars>>

ComputeReturn ==
    /\ pc = "running"
    /\ i = n_iterations
    /\ pc' = "idle"
    /\ calls' = calls + 1
    /\ UNCHANGED <<engine_vars, err, i, a, a_prev, entry, exact, view, res, row_vars>>

Next ==
    \/ \E x \in Inputs : ComputeEnter(x)
    \/ ComputeColumn
    \/ ComputeReturn

Spec == Init /\ [][Next]_vars

----------------------------------------------------------------------------
(* The layout resolver on its own: every stride pattern up to the bounds *)

Views == {[dim |-> <<m, n>>, strides |-> <<s1, s2>>, data |-> <<>>] :
             m \in 1..MaxDim, n \in 1..MaxDim, s1 \in 0..MaxStride, s2 \in 0..MaxStride}

InitLayout ==
    /\ kind = "none"
    /\ q = NoArray
    /\ r = NoArray
    /\ work_vector = <<>>
    /\ memory_order = "none"
    /\ dirty = FALSE
    /\ pc = "new"
    /\ err = ""
    /\ i = 0
    /\ a = NoArray
    /\ a_prev = NoArray
    /\ entry = [q |-> NoArray, r |-> NoArray]
    /\ calls = 0
    /\ exact = TRUE
    /\ view \in Views
    /\ res = NoResult
    /\ NoRowEngine

GetLayout ==
    /\ res.get_layout = "unset"
    /\ res' = [res EXCEPT !.get_layout = get_layout(view)]
    /\ UNCHANGED <<engine_vars, call_vars, view, row_vars>>

AsSliceWithLayout ==
    /\ res.as_slice_with_layout = "unset"
    /\ res' = [res EXCEPT !.as_slice_with_layout = as_slice_with_layout(view).layout]
    /\ UNCHANGED <<engine_vars, call_vars, view, row_vars>>

FromMatrix(k) ==
    /\ pc = "new"
    /\ LET e == from_matrix(k, view)
       IN  IF e.panic # ""
           THEN /\ Panic(e.panic)
                /\ res' = [res EXCEPT !.from_matrix = "None"]
                /\ UNCHANGED <<engine_vars, entry>>
           ELSE /\ kind' = k
                /\ q' = e.q
                /\ r' = e.r
                /\ work_vector' = e.work_vector
                /\ memory_order' = e.memory_order
                /\ dirty' = e.dirty
                /\ pc' = "idle"
                /\ entry' = [q |-> e.q, r |-> e.r]
                /\ res' = [res EXCEPT !.from_matrix = e.memory_order]
                /\ UNCHANGED err
    /\ UNCHANGED <<i, a, a_prev, calls, exact, view, row_vars>>

NextLayout ==
    \/ GetLayout
    \/ AsSliceWithLayout
    \/ \E k \in Kinds : FromMatrix(k)

SpecLayout == InitLayout /\ [][NextLayout]_vars

----------------------------------------------------------------------------
(* lib.rs, parallel.rs: the row-wise engines.  They orthonormalise the ROWS of
   orth in place and store the norms in norm. *)

MaxWorkers == 2      \* threads of the pool that runs the parallel iterator
MaxTasks == 3        \* items of the parallel iterator: rows below the first one

\* x.row(row), as a vector indexed from 0
Row(x, row) == Table([col \in 0..(Cols(x) - 1) |-> At(x, row, col)])

\* x.row_mut(row) overwritten with vec
AssignRow(x, row, vec) ==
    [x EXCEPT !.data =
        Table([k \in DOMAIN x.data |->
                  IF \E col \in 0..(Cols(x) - 1) : k = Off(x, row, col)
                  THEN vec[CHOOSE col \in 0..(Cols(x) - 1) : k = Off(x, row, col)]
                  ELSE x.data[k]])]

\* v.as_slice() of a row view v is Some: its elements are one apart
row_as_slice(x) == x.strides[2] = 1

\* a.to_owned(): a contiguous array keeps its strides, any other is copied in
\* C order
to_owned(x) ==
    IF as_slice_memory_order(x) THEN x
    ELSE [dim |-> x.dim, strides |-> DefaultStrides(x.dim),
          data |-> [k \in 0..(NElems(x) - 1) |-> At(x, k \div Cols(x), k % Cols(x))]]

\* Array1::default(n)
default1(n) == [k \in 0..(n - 1) |-> Zero]

\* x can be broadcast to the shape dim
can_broadcast(x, dim) == \A ax \in 1..2 : x.dim[ax] = dim[ax] \/ x.dim[ax] = 1

\* dst.assign(&x), x broadcast to the shape of dst
assign(dst, x) ==
    [dst EXCEPT !.data =
        Table([k \in DOMAIN dst.data |->
                  IF \E row \in 0..(Rows(dst) - 1), col \in 0..(Cols(dst) - 1) :
                         k = Off(dst, row, col)
                  THEN LET rc == CHOOSE rc \in (0..(Rows(dst) - 1)) \X (0..(Cols(dst) - 1)) :
                                     k = Off(dst, rc[1], rc[2])
                       IN  At(x, IF Rows(x) = 1 THEN 0 ELSE rc[1],
                                 IF Cols(x) = 1 THEN 0 ELSE rc[2])
                  ELSE dst.data[k]])]

\* lib.rs normalization: dnrm2 over the whole slice
normalization(v) == dnrm2(Cardinality(DOMAIN v), v, 0, 1)

\* v left as it is
normalized_not(v, n) == v

\* v /= norm[i]
normalized(v, n) == DivVec(v, n)

\* lib.rs, ModifiedGramSchmidt::compute_inplace without any projection
late_projection_none(x, v, j, row) == v

\* lib.rs, ModifiedGramSchmidt::compute_inplace, the loop over the finished rows
\* j, j+1, .., row-1 (late projection): v is row number row of x so far
RECURSIVE late_projection(_, _, _, _)
late_projection(x, v, j, row) ==
    IF j >= row THEN v
    ELSE LET w == Row(x, j)
             projection_factor == Dot(v, w)
         IN  late_projection(x, ScaledAdd(v, RNeg(projection_factor), w), j + 1, row)

\* lib.rs, one iteration of the loop of ModifiedGramSchmidt::compute_inplace
mgs_iteration(x, nrm, row) ==
    LET v == late_projection(x, Row(x, row), 0, row)
        x1 == AssignRow(x, row, v)
    IN  IF ~row_as_slice(x)
        THEN [panic |-> "called Option::unwrap() on a None value", orth |-> x1, norm |-> nrm]
        ELSE IF row \notin DOMAIN nrm
        THEN [panic |-> "index out of bounds", orth |-> x1, norm |-> nrm]
        ELSE [panic |-> "",
              orth |-> AssignRow(x1, row, normalized(v, normalization(v))),
              norm |-> [nrm EXCEPT ![row] = normalization(v)]]

\* the iteration without the division by the norm
mgs_iteration_no_division(x, row) ==
    [panic |-> IF row_as_slice(x) THEN "" ELSE "called Option::unwrap() on a None value",
     orth |-> AssignRow(x, row, late_projection(x, Row(x, row), 0, row))]

\* lib.rs, one iteration of the loop of ModifiedGramSchmidt::compute_inplace_no_norm
mgs_iteration_no_norm(x, row) ==
    LET v == late_projection(x, Row(x, row), 0, row)
        x1 == AssignRow(x, row, v)
    IN  IF ~row_as_slice(x)
        THEN [panic |-> "called Option::unwrap() on a None value", orth |-> x1]
        ELSE [panic |-> "", orth |-> AssignRow(x1, row, normalized(v, normalization(v)))]

\* lib.rs, ModifiedGramSchmidt::compute_inplace (with_norm) and
\* compute_inplace_no_norm (~with_norm) from the given row on
RECURSIVE mgs_inplace_from(_, _, _, _)
mgs_inplace_from(x, nrm, row, with_norm) ==
    IF row >= Rows(x) THEN [panic |-> "", orth |-> x, norm |-> nrm]
    ELSE LET step == IF with_norm THEN mgs_iteration(x, nrm, row)
                     ELSE [panic |-> mgs_iteration_no_norm(x, row).panic,
                           orth |-> mgs_iteration_no_norm(x, row).orth,
                           norm |-> nrm]
         IN  IF step.panic # "" THEN step
             ELSE mgs_inplace_from(step.orth, step.norm, row + 1, with_norm)

mgs_compute_inplace(x, nrm, with_norm) == mgs_inplace_from(x, nrm, 0, with_norm)

\* lib.rs, project: vector.dot(onto) / onto.dot(onto)
project(vector, onto) == RDiv(Dot(vector, onto), Dot(onto, onto))

\* lib.rs, GramSchmidt::compute_into, the loop over the finished rows j, j+1, ..,
\* row-1: every factor is taken from ref_vec = a.row(i), v is row number row of
\* orth so far
RECURSIVE gs_projection(_, _, _, _, _)
gs_projection(x, ref_vec, v, j, row) ==
    IF j >= row THEN v
    ELSE LET w == Row(x, j)
             projection_factor == project(ref_vec, w)
         IN  gs_projection(x, ref_vec, ScaledAdd(v, RNeg(projection_factor), w), j + 1, row)

\* lib.rs, one iteration of the loop of GramSchmidt::compute_into; xa is a
gs_iteration(xa, x, nrm, row) ==
    IF row >= Rows(xa)
    THEN [panic |-> "index out of bounds", orth |-> x, norm |-> nrm]      \* a.row(i)
    ELSE IF row > 0 /\ Cols(xa) # Cols(x)
    THEN [panic |-> "inputs are not compatible for dot product", orth |-> x, norm |-> nrm]
    ELSE LET v == gs_projection(x, Row(xa, row), Row(x, row), 0, row)
             x1 == AssignRow(x, row, v)
         IN  IF ~row_as_slice(x)
             THEN [panic |-> "called Option::unwrap() on a None value",
                   orth |-> x1, norm |-> nrm]
             ELSE IF row \notin DOMAIN nrm
             THEN [panic |-> "index out of bounds", orth |-> x1, norm |-> nrm]
             ELSE [panic |-> "",
                   orth |-> AssignRow(x1, row, normalized(v, normalization(v))),
                   norm |-> [nrm EXCEPT ![row] = normalization(v)]]

\* lib.rs, GramSchmidt::compute_into before the loop: orth.row_mut(0).assign(&a.row(0))
gs_assign_first(xa, x) ==
    IF Rows(x) = 0 \/ Rows(xa) = 0
    THEN [panic |-> "index out of bounds", orth |-> x]
    ELSE IF Cols(xa) # Cols(x) /\ Cols(xa) # 1
    THEN [panic |-> "could not broadcast array", orth |-> x]
    ELSE [panic |-> "",
          orth |-> AssignRow(x, 0, [col \in 0..(Cols(x) - 1) |->
                                       At(xa, 0, IF Cols(xa) = 1 THEN 0 ELSE col)])]

\* the loop of GramSchmidt::compute_into from the given row on
RECURSIVE gs_from(_, _, _, _)
gs_from(xa, x, nrm, row) ==
    IF row >= Rows(x) THEN [panic |-> "", orth |-> x, norm |-> nrm]
    ELSE LET step == gs_iteration(xa, x, nrm, row)
         IN  IF step.panic # "" THEN step ELSE gs_from(xa, step.orth, step.norm, row + 1)

\* lib.rs, GramSchmidt::compute_into
gs_compute_into(xa, x, nrm) ==
    IF gs_assign_first(xa, x).panic # ""
    THEN [panic |-> gs_assign_first(xa, x).panic, orth |-> x, norm |-> nrm]
    ELSE gs_from(xa, gs_assign_first(xa, x).orth, nrm, 0)

\* lib.rs, GramSchmidt::compute
gs_compute(xa) == gs_compute_into(xa, to_owned(xa), default1(xa.dim[2]))


\* parallel.rs: the rows that the tasks of the parallel iterator touch, t being
\* the first row of the view todo after todo = rest.  v is the row split off
\* in front of todo; item k of todo.axis_iter_mut(Axis(0)) is row k of the view.
v_index_next(t) == t
v_index(t) == t - 1
w_index_first(t, k) == t
w_index(t, k) == t + k

\* the closure of for_each: w -= projection_factor * v, element by element
remove_projection(w, projection_factor, v) == ScaledAdd(w, RNeg(projection_factor), v)

\* a task of the parallel iterator that has not started
NewTask == [st |-> "pending", projection_factor |-> Zero, reads |-> {}, writes |-> {}, seq |-> 0]

\* for_each returns: at least one / every item has been processed
joined_any(ts) == \E k \in DOMAIN ts : ts[k].st = "done"
joined(ts) == \A k \in DOMAIN ts : ts[k].st = "done"

----------------------------------------------------------------------------
(* parallel.rs: ParallelModifiedGramSchmidt for f64.  One action for the entry
   point up to the loop, one for the sequential head of an iteration, two per
   task of the parallel iterator (the dot product, the update of the row), one
   for the return of for_each. *)

\* rows with rational norms at every step: the rows of 3 * L * U, U orthonormal
P3 == << <<1, 2, 2>>,
         <<3, 3, 0>>,
         <<5, 1, 1>> >>
PAIR == << <<3, 4>>,
           <<4, 3>> >>
\* fewer rows than columns
WIDE == << <<1, 2, 2>>,
           <<3, 3, 0>> >>
\* more rows than columns
TALL_ROWS == << <<3, 4>>,
                <<4, 3>>,
                <<1, 0>> >>

RowInputs == {arr2(m) : m \in {P3, PAIR, WIDE, TALL_ROWS, UNITY}} \cup {arr2_f(PAIR)}

Apis == {"compute", "compute_into", "compute_inplace", "compute_inplace_no_norm"}

InitParallel ==
    /\ kind = "PMGS"
    /\ q = NoArray
    /\ r = NoArray
    /\ work_vector = <<>>
    /\ memory_order = "none"
    /\ dirty = FALSE
    /\ pc = "call"
    /\ err = ""
    /\ i = 0
    /\ a_prev = NoArray
    /\ entry = [orth |-> NoArray, norm |-> <<>>]
    /\ calls = 0
    /\ exact = TRUE
    /\ view = NoArray
    /\ res = NoResult
    /\ api \in Apis
    /\ \/ /\ api = "compute"
          /\ a \in RowInputs
          /\ orth = NoArray
          /\ norm = <<>>
       \/ /\ api = "compute_into"
          /\ a \in {arr2(P3), arr2(PAIR)}
          /\ orth \in {zeros(<<3, 3>>, FALSE), zeros(<<2, 2>>, FALSE)}
          /\ norm \in {default1(2), default1(3)}
       \/ /\ api = "compute_inplace"
          /\ a = NoArray
          /\ orth \in RowInputs
          /\ norm \in {default1(2), default1(Rows(orth))}
       \/ /\ api = "compute_inplace_no_norm"
          /\ a = NoArray
          /\ orth \in RowInputs
          /\ norm = <<>>
    /\ todo = 0
    /\ tasks = <<>>
    /\ workers \in 1..MaxWorkers
    /\ v_before = <<>>

\* compute: o = a.to_owned(), n = Array1::default(a.dim().1), compute_into;
\* compute_into: orth.assign(&a), compute_inplace; compute_inplace up to the loop
Enter ==
    /\ pc = "call"
    /\ IF api = "compute_into" /\ ~can_broadcast(a, orth.dim)
       THEN /\ Panic("could not broadcast array")
            /\ UNCHANGED <<orth, norm, entry>>
       ELSE LET o == IF api = "compute" THEN assign(to_owned(a), a)
                     ELSE IF api = "compute_into" THEN assign(orth, a)
                     ELSE orth
                n == IF api = "compute" THEN default1(a.dim[2]) ELSE norm
            IN  /\ orth' = o
                /\ norm' = n
                /\ entry' = [orth |-> o, norm |-> n]
                /\ pc' = IF Rows(o) = 0 THEN "done" ELSE "normalize"
                /\ UNCHANGED err
    /\ UNCHANGED <<engine_vars, i, a, a_prev, calls, exact, layout_vars,
                   api, todo, tasks, workers, v_before>>

\* the head of iteration i: split off the row v, todo = rest,
\* norm[i] = normalization(v.as_slice().unwrap()), v /= norm[i]; then the
\* parallel iterator over the rows of todo is created
Normalize ==
    /\ pc = "normalize"
    /\ todo' = todo + 1
    /\ LET v == Row(orth, todo)
       IN  IF ~row_as_slice(orth)
           THEN /\ Panic("called Option::unwrap() on a None value")
                /\ UNCHANGED <<orth, norm, tasks, v_before, exact>>
           ELSE IF api # "compute_inplace_no_norm" /\ i \notin DOMAIN norm
           THEN /\ Panic("index out of bounds")
                /\ UNCHANGED <<orth, norm, tasks, v_before, exact>>
           ELSE /\ norm' = IF api = "compute_inplace_no_norm" THEN norm
                           ELSE [norm EXCEPT ![i] = normalization(v)]
                /\ orth' = AssignRow(orth, todo, normalized(v, normalization(v)))
                /\ tasks' = [k \in 0..(Rows(orth) - todo - 2) |-> NewTask]
                /\ v_before' = v
                /\ exact' = (exact /\ HasRationalSqrt(nrm2sq(Cols(orth), v, 0, 1)))
                /\ pc' = "fanout"
                /\ UNCHANGED err
    /\ UNCHANGED <<engine_vars, i, a, a_prev, entry, calls, layout_vars, api, workers>>

\* a thread of the pool takes item k: projection_factor = v.dot(&w)
TaskDot(k) ==
    /\ pc = "fanout"
    /\ k \in DOMAIN tasks
    /\ tasks[k].st = "pending"
    /\ Cardinality({k2 \in DOMAIN tasks : tasks[k2].st = "dot"}) < workers
    /\ LET v == v_index(todo)
           w == w_index(todo, k)
       IN  tasks' = [tasks EXCEPT ![k] =
                        [@ EXCEPT !.st = "dot",
                                  !.projection_factor = Dot(Row(orth, v), Row(orth, w)),
                                  !.reads = {v, w}]]
    /\ UNCHANGED <<engine_vars, call_vars, layout_vars, api, orth, norm, todo, workers, v_before>>

\* the same thread: w.zip_mut_with(&v, |ew, ev| *ew -= projection_factor * ev)
TaskWrite(k) ==
    /\ pc = "fanout"
    /\ k \in DOMAIN tasks
    /\ tasks[k].st = "dot"
    /\ LET v == v_index(todo)
           w == w_index(todo, k)
       IN  /\ orth' = AssignRow(orth, w, remove_projection(Row(orth, w),
                                                            tasks[k].projection_factor,
                                                            Row(orth, v)))
           /\ tasks' = [tasks EXCEPT ![k] =
                           [@ EXCEPT !.st = "done",
                                     !.reads = @ \cup {v, w},
                                     !.writes = {w},
                                     !.seq = 1 + Cardinality({k2 \in DOMAIN tasks :
                                                                 tasks[k2].st = "done"})]]
    /\ UNCHANGED <<engine_vars, call_vars, layout_vars, api, norm, todo, workers, v_before>>

\* for_each returns; the loop goes on to the next row or compute_inplace returns
Join ==
    /\ pc = "fanout"
    /\ joined(tasks)
    /\ i' = i + 1
    /\ pc' = IF i + 1 = Rows(orth) THEN "done" ELSE "normalize"
    /\ UNCHANGED <<engine_vars, err, a, a_prev, entry, calls, exact, layout_vars, row_vars>>

NextParallel ==
    \/ Enter
    \/ Normalize
    \/ \E k \in 0..(MaxTasks - 1) : TaskDot(k)
    \/ \E k \in 0..(MaxTasks - 1) : TaskWrite(k)
    \/ Join

SpecParallel == InitParallel /\ [][NextParallel]_vars

----------------------------------------------------------------------------
(* lib.rs: GramSchmidt for f64 (kind "GS") and ModifiedGramSchmidt for f64
   (kind "SMGS").  One action for the entry point up to the loop, one per
   iteration of the loop over the rows, one for the return. *)

RowKinds == {"GS", "SMGS"}

InitRows ==
    /\ kind \in RowKinds
    /\ q = NoArray
    /\ r = NoArray
    /\ work_vector = <<>>
    /\ memory_order = "none"
    /\ dirty = FALSE
    /\ pc = "rows_call"
    /\ err = ""
    /\ i = 0
    /\ a_prev = NoArray
    /\ entry = [orth |-> NoArray, norm |-> <<>>]
    /\ calls = 0
    /\ exact = TRUE
    /\ view = NoArray
    /\ res = NoResult
    /\ api \in Apis
    /\ \/ /\ api = "compute"
          /\ a \in RowInputs
          /\ orth = NoArray
          /\ norm = <<>>
       \/ /\ api = "compute_into"
          /\ a \in {arr2(P3), arr2(PAIR)}
          /\ orth \in {zeros(<<3, 3>>, FALSE), zeros(<<2, 2>>, FALSE), arr2(P3), arr2(PAIR)}
          /\ norm \in {default1(2), default1(3)}
       \/ /\ api = "compute_inplace"
          /\ kind = "SMGS"
          /\ a = NoArray
          /\ orth \in RowInputs
          /\ norm \in {default1(2), default1(Rows(orth))}
       \/ /\ api = "compute_inplace_no_norm"
          /\ kind = "SMGS"
          /\ a = NoArray
          /\ orth \in RowInputs
          /\ norm = <<>>
    /\ todo = 0
    /\ tasks = <<>>
    /\ workers = 1
    /\ v_before = <<>>

\* compute: o = a.to_owned(), n = Array1::default(a.dim().1), compute_into;
\* compute_into of GramSchmidt: the assignment of row 0; compute_into of
\* ModifiedGramSchmidt: orth.assign(&a), compute_inplace; up to the loop
EnterRows ==
    /\ pc = "rows_call"
    /\ LET o == IF api = "compute" THEN to_owned(a) ELSE orth
           n == IF api = "compute" THEN default1(a.dim[2]) ELSE norm
           first == IF kind = "GS" THEN gs_assign_first(a, o)
                    ELSE IF api \in {"compute", "compute_into"}
                    THEN IF can_broadcast(a, o.dim)
                         THEN [panic |-> "", orth |-> assign(o, a)]
                         ELSE [panic |-> "could not broadcast array", orth |-> o]
                    ELSE [panic |-> "", orth |-> o]
       IN  /\ orth' = first.orth
           /\ norm' = n
           /\ entry' = [orth |-> first.orth, norm |-> n]
           /\ IF first.panic # "" THEN Panic(first.panic)
              ELSE /\ pc' = "rows_loop"
                   /\ UNCHANGED err
    /\ UNCHANGED <<engine_vars, i, a, a_prev, calls, exact, layout_vars,
                   api, todo, tasks, workers, v_before>>

\* one iteration of for i in 0..n_rows
RowIteration ==
    /\ pc = "rows_loop"
    /\ i < Rows(orth)
    /\ LET step == IF kind = "GS" THEN gs_iteration(a, orth, norm, i)
                   ELSE IF api = "compute_inplace_no_norm"
                   THEN [panic |-> mgs_iteration_no_norm(orth, i).panic,
                         orth |-> mgs_iteration_no_norm(orth, i).orth,
                         norm |-> norm]
                   ELSE mgs_iteration(orth, norm, i)
       IN  /\ orth' = step.orth
           /\ norm' = step.norm
           /\ IF step.panic # ""
              THEN /\ Panic(step.panic)
                   /\ UNCHANGED i
              ELSE /\ i' = i + 1
                   /\ UNCHANGED <<pc, err>>
    /\ UNCHANGED <<engine_vars, a, a_prev, entry, calls, exact, layout_vars,
                   api, todo, tasks, workers, v_before>>

\* the loop is over: the entry point returns
ReturnRows ==
    /\ pc = "rows_loop"
    /\ i = Rows(orth)
    /\ pc' = "done"
    /\ UNCHANGED <<engine_vars, err, i, a, a_prev, entry, calls, exact, layout_vars, row_vars>>

NextRows ==
    \/ EnterRows
    \/ RowIteration
    \/ ReturnRows

SpecRows == InitRows /\ [][NextRows]_vars

----------------------------------------------------------------------------
(* Vocabulary of the properties *)

\* the last compute call has returned
Returned == pc = "idle" /\ calls > 0

\* a compute call has been entered (a is its argument)
Entered == a # NoArray

Contiguous(x) == as_slice(x) \/ as_slice_memory_order(x)

\* x has the shape and the memory layout the engine was constructed for
Accepted(x) == x.dim = q.dim /\ x.strides = q.strides

\* every call so far was given an accepted matrix
AllAccepted == Accepted(a) /\ (a_prev = NoArray \/ Accepted(a_prev))

\* neither q nor r has changed since the call was entered
Untouched == q = entry.q /\ r = entry.r

Identity(n) == [row \in 0..(n - 1) |-> [col \in 0..(n - 1) |-> IF row = col THEN One ELSE Zero]]

\* x * y as a logical matrix (x.dot(y)); defined when Cols(x) = Rows(y)
Product(x, y) ==
    [row \in 0..(Rows(x) - 1) |-> [col \in 0..(Cols(y) - 1) |->
        SumTo(Cols(x), [k \in 0..(Cols(x) - 1) |-> RMul(At(x, row, k), At(y, k, col))])]]

\* the Gram matrix of the columns of x
Gram(x) ==
    [c1 \in 0..(Cols(x) - 1) |-> [c2 \in 0..(Cols(x) - 1) |-> Dot(Column(x, c1), Column(x, c2))]]

IsUnity(x) == Rows(x) = Cols(x) /\ Mat(x) = Identity(Rows(x))

----------------------------------------------------------------------------
(* The properties *)

\* C1: after compute(A) on an accepted A (the engine's shape and layout, exact
\* norms), the product q() * r() exists and equals A.
C1_Reconstruction ==
    (Returned /\ Accepted(a) /\ exact) =>
        (Cols(q) = Rows(r) /\ Product(q, r) = Mat(a))

\* C2: after compute(A) on an accepted A, the columns of Q are orthonormal:
\* Q^T * Q is the N x N identity.
C2_Orthonormal ==
    (Returned /\ Accepted(a) /\ exact) => Gram(q) = Identity(Cols(q))

\* C3: the first compute of an engine on the identity matrix of its shape and
\* layout leaves Q = I and R = I.
C3_UnityStaysUnity ==
    (Returned /\ calls = 1 /\ Accepted(a) /\ IsUnity(a)) => (IsUnity(q) /\ IsUnity(r))

\* C4: after any sequence of compute calls on accepted matrices, every entry of
\* R below the diagonal is zero.
C4_Triangular ==
    (Returned /\ AllAccepted /\ exact) =>
        \A row \in 0..(Rows(r) - 1), col \in 0..(Cols(r) - 1) :
            row > col => At(r, row, col) = Zero

\* C5: a second compute with the same accepted A leaves the Q and the R that
\* the first call left (entry holds them: the second call was entered with them).
C5_Idempotent ==
    (Returned /\ calls >= 2 /\ a = a_prev /\ Accepted(a) /\ exact) => Untouched

\* C6: a compute call whose argument has another shape than the engine never
\* returns normally and never changes an entry of Q or R.
C6_ShapeMismatchFatal ==
    (Entered /\ a.dim # q.dim) => (pc # "idle" /\ Untouched)

\* C7: a compute call whose argument has the engine's shape but the other
\* memory layout never returns normally and never changes an entry of Q or R.
C7_LayoutMismatchRejected ==
    (Entered /\ a.dim = q.dim /\ Contiguous(a) /\ get_layout(a) # memory_order) =>
        (pc # "idle" /\ Untouched)

\* C8: a compute call whose argument is not contiguous never returns normally
\* and never changes an entry of Q or R.
C8_NonContiguousRejected ==
    (Entered /\ ~Contiguous(a)) => (pc # "idle" /\ Untouched)

\* the element offsets of x are those of one row-major / column-major block
IsRowMajorBlock(x) ==
    \A row \in 0..(Rows(x) - 1), col \in 0..(Cols(x) - 1) :
        Off(x, row, col) = row * Cols(x) + col
IsColumnMajorBlock(x) ==
    \A row \in 0..(Rows(x) - 1), col \in 0..(Cols(x) - 1) :
        Off(x, row, col) = row + col * Rows(x)

ExpectedLayout(x) ==
    IF IsRowMajorBlock(x) THEN "RowMajor"
    ELSE IF IsColumnMajorBlock(x) THEN "ColumnMajor"
    ELSE "None"

\* C9: each of the three resolvers answers RowMajor exactly for a row-major
\* block, ColumnMajor exactly for a column-major block that is not a row-major
\* one, and fails otherwise; so the three agree.
C9_LayoutResolution ==
    /\ res.get_layout # "unset" => res.get_layout = ExpectedLayout(view)
    /\ res.as_slice_with_layout # "unset" => res.as_slice_with_layout = ExpectedLayout(view)
    /\ res.from_matrix # "unset" => res.from_matrix = ExpectedLayout(view)

\* C9 witness: a 2 x 3 column-major block, resolved by all three
C9_Witness ==
    /\ view.dim = <<2, 3>>
    /\ view.strides = <<1, 2>>
    /\ res = [get_layout |-> "ColumnMajor", as_slice_with_layout |-> "ColumnMajor",
              from_matrix |-> "ColumnMajor"]

\* C10: Q is M x N, R is N x N and the scratch vector of CGS2 has length M.
C10_StateShapes ==
    (pc \in {"idle", "running"}) =>
        /\ r.dim = <<Cols(q), Cols(q)>>
        /\ kind = "CGS2" => DOMAIN work_vector = 0..(Rows(q) - 1)

\* C11: after a compute on an engine that an earlier compute has used (both
\* arguments of the engine's shape), every entry of R above the diagonal is the
\* one a freshly constructed engine computes for the same argument.
C11_NoStaleLeak ==
    (Returned /\ calls >= 2 /\ a.dim = q.dim /\ a_prev.dim = q.dim) =>
        LET fresh == compute_fresh(kind, q.dim, memory_order, a)
        IN  \A row \in 0..(Rows(r) - 1), col \in 0..(Cols(r) - 1) :
                row < col => At(r, row, col) = At(fresh.r, row, col)

\* C11 witness: a CGS2 engine whose second compute got another matrix than the
\* first and replaced the entry R[2,3] the first one left
C11_Witness ==
    /\ Returned /\ calls >= 2 /\ kind = "CGS2"
    /\ a.dim = <<4, 4>> /\ a_prev.dim = <<4, 4>> /\ q.dim = <<4, 4>>
    /\ At(entry.r, 2, 3) # At(r, 2, 3)

\* C12: when the column loop of a compute other than the first starts on a CGS
\* or CGS2 engine, the engine is marked dirty and R is all zero.
C12_ClearedBeforeReuse ==
    (kind \in {"CGS", "CGS2"} /\ pc = "running" /\ i = 0 /\ calls >= 1) =>
        (dirty /\ r = fill0(r))

\* the strided vector that the first dgemv of iteration col reads as x
FirstProductVector(col) ==
    [k \in 0..(Rows(q) - 1) |->
        Get(a.data, a_column(a, Rows(q), col) + k * a_column_inc(a, Cols(q)))]

\* C19: in every iteration of a CGS or CGS2 compute the vector handed to the
\* first batched product is column i of the argument, for row-major and
\* column-major arguments alike.
C19_ColumnAddressing ==
    (kind \in {"CGS", "CGS2"} /\ pc = "running" /\ i < Cols(q)) =>
        FirstProductVector(i) = Column(a, i)

\* column col of the argument minus its projections, with coefficients taken
\* from the argument's column, on the columns 0..col-1 of Q
ClassicalCoefficient(col, k) == Dot(Column(q, k), Column(a, col))
ClassicalCorrection(col) ==
    [row \in 0..(Rows(q) - 1) |->
        RSub(At(a, row, col),
             SumTo(col, [k \in 0..(col - 1) |->
                            RMul(ClassicalCoefficient(col, k), At(q, row, k))]))]

\* C20: an iteration i > 0 of a CGS compute leaves in R[0..i-1, i] the dot
\* products of the argument's column i with the columns 0..i-1 of Q, and in
\* column i of Q the argument's column i minus Q[:,0..i-1] * R[0..i-1,i],
\* normalised.
C20_ProjectionSource ==
    [][(kind = "CGS" /\ pc = "running" /\ pc' = "running" /\ i > 0 /\ i' = i + 1) =>
          /\ \A k \in 0..(i - 1) : At(r', k, i) = ClassicalCoefficient(i, k)
          /\ Column(q', i) =
                 DivVec(ClassicalCorrection(i),
                        RSqrt(SumTo(Rows(q), [row \in 0..(Rows(q) - 1) |->
                                 RMul(ClassicalCorrection(i)[row], ClassicalCorrection(i)[row])])))
      ]_vars

\* some task of the parallel iterator has started
SomeTaskStarted == \E k \in DOMAIN tasks : tasks[k].st # "pending"

\* C13: from the moment the parallel iterator of iteration i exists, and so
\* whenever a task runs, row i is the normalised row (norm[i] stored, the row
\* divided by it) and stays so; a task runs only inside the fan-out.
C13_NormalizeBeforeFanOut ==
    /\ (kind = "PMGS" /\ pc = "fanout") =>
           /\ Row(orth, i) = DivVec(v_before, normalization(v_before))
           /\ api # "compute_inplace_no_norm" => norm[i] = normalization(v_before)
    /\ (kind = "PMGS" /\ \E k \in DOMAIN tasks : tasks[k].st = "dot") => pc = "fanout"

\* C13 witness: iteration 0 on P3, one task finished and one in its update
C13_Witness ==
    /\ kind = "PMGS" /\ pc = "fanout" /\ i = 0 /\ api = "compute_inplace"
    /\ v_before = Row(arr2(P3), 0)
    /\ DOMAIN tasks = {0, 1}
    /\ tasks[0].st = "dot" /\ tasks[1].st = "done"

\* C14: when the normalisation of row i+1 is about to start, every task of
\* iteration i has finished, and row i+1 has no component along row i left.
C14_Barrier ==
    (kind = "PMGS" /\ pc = "normalize" /\ i > 0) =>
        /\ \A k \in DOMAIN tasks : tasks[k].st = "done"
        /\ (exact /\ normalization(v_before) # Zero) =>
               Dot(Row(orth, i - 1), Row(orth, i)) = Zero

\* C14 witness: compute_inplace_no_norm on P3 between iteration 0 and 1
C14_Witness ==
    /\ kind = "PMGS" /\ pc = "normalize" /\ i = 1 /\ api = "compute_inplace_no_norm"
    /\ DOMAIN tasks = {0, 1}
    /\ entry.orth = arr2(P3)

\* C15: during the fan-out of iteration i every task writes at most one row, a
\* row of i+1..n-1, reads only row i and that row, and no two tasks write the
\* same row.
C15_DisjointWrites ==
    (kind = "PMGS" /\ pc = "fanout") =>
        /\ \A k \in DOMAIN tasks :
               \E w \in (i + 1)..(Rows(orth) - 1) :
                   /\ tasks[k].writes \subseteq {w}
                   /\ tasks[k].reads \subseteq {i, w}
        /\ \A k1, k2 \in DOMAIN tasks :
               k1 # k2 => tasks[k1].writes \cap tasks[k2].writes = {}

\* C15 witness: the three tasks of iteration 0 on a 4-row matrix have all written
C15_Witness ==
    /\ kind = "PMGS" /\ pc = "fanout" /\ i = 0 /\ Rows(orth) = 4
    /\ \A k \in 0..2 : tasks[k].writes = {k + 1}

\* the fan-out with the tasks run one after the other in index order
RECURSIVE fan_out_in_order(_, _, _)
fan_out_in_order(x, t, k) ==
    IF k >= Rows(x) - t THEN x
    ELSE LET v == Row(x, v_index(t))
             w == Row(x, w_index(t, k))
         IN  fan_out_in_order(AssignRow(x, w_index(t, k), remove_projection(w, Dot(v, w), v)),
                              t, k + 1)

\* the iterations row..n-1 of the parallel engine under that schedule
RECURSIVE early_projection(_, _, _, _, _)
early_projection(x, nrm, row, n, with_norm) ==
    IF row >= n THEN [orth |-> x, norm |-> nrm]
    ELSE LET v == Row(x, row)
         IN  early_projection(
                 fan_out_in_order(AssignRow(x, row, normalized(v, normalization(v))), row + 1, 0),
                 IF with_norm THEN [nrm EXCEPT ![row] = normalization(v)] ELSE nrm,
                 row + 1, n, with_norm)

\* C16: after i iterations orth and norm are what the in-order, one-task-at-a-
\* time schedule leaves, whatever the interleaving and the number of threads.
C16_InterleavingIndependent ==
    (kind = "PMGS" /\ pc \in {"normalize", "done"}) =>
        LET ref == early_projection(entry.orth, entry.norm, 0, i,
                                    api # "compute_inplace_no_norm")
        IN  orth = ref.orth /\ norm = ref.norm

\* C16 witness: two threads, and the second task of iteration 0 finished
\* before the first
C16_Witness ==
    /\ kind = "PMGS" /\ pc = "normalize" /\ i = 1 /\ workers = 2
    /\ entry.orth = arr2(P3)
    /\ tasks[1].seq = 1 /\ tasks[0].seq = 2

\* C17: when the parallel engine returns, orth and norm are those that the
\* sequential ModifiedGramSchmidt leaves for the same arguments.
C17_CrossEngine ==
    (kind = "PMGS" /\ pc = "done") =>
        LET s == mgs_compute_inplace(entry.orth, entry.norm, api # "compute_inplace_no_norm")
        IN  s.panic = "" /\ orth = s.orth /\ norm = s.norm

\* C17 witness: compute on P3 has returned the orthonormal rows and the norms
C17_Witness ==
    /\ kind = "PMGS" /\ pc = "done" /\ api = "compute" /\ a = arr2(P3)
    /\ norm = [k \in 0..2 |-> Rat(3)]
    /\ Row(orth, 2) = [k \in 0..2 |-> Reduce(IF k = 1 THEN -2 ELSE IF k = 0 THEN 2 ELSE 1, 3)]

\* C18: a call of the parallel engine that fails has failed before any parallel
\* work: no task of any iteration has started.
C18_FailFast ==
    (kind = "PMGS" /\ pc = "panic") => (i = 0 /\ ~SomeTaskStarted)

\* what the first pass of iteration i of a CGS2 compute leaves: the column of
\* the argument copied into Q and corrected once
FirstPass == cgs_project(AssignColumn(q, i, Column(a, i)), r, memory_order, a, i)

\* the coefficients of the second pass: the corrected column against the
\* finished columns 0..i-1
SecondCoefficient(k) == Dot(Column(q, k), Column(FirstPass.q, i))

\* the corrected column minus the combination of the finished columns
SecondCorrection ==
    [row \in 0..(Rows(q) - 1) |->
        RSub(At(FirstPass.q, row, i),
             SumTo(i, [k \in 0..(i - 1) |-> RMul(SecondCoefficient(k), At(q, row, k))]))]

\* C21: an iteration i > 0 of a CGS2 compute leaves in scratch[0..i-1] the dot
\* products of the once-corrected column with the finished columns, in
\* R[k,i] (k < i) the sum of the first-pass and the second-pass coefficient,
\* and in column i of Q the once-corrected column minus the combination of the
\* finished columns with the second-pass coefficients, normalised.
C21_SecondPass ==
    [][(kind = "CGS2" /\ pc = "running" /\ pc' = "running" /\ i > 0 /\ i' = i + 1) =>
          /\ \A k \in 0..(i - 1) :
                 /\ work_vector'[k] = SecondCoefficient(k)
                 /\ At(r', k, i) = RAdd(At(FirstPass.r, k, i), SecondCoefficient(k))
          /\ Column(q', i) =
                 DivVec(SecondCorrection,
                        RSqrt(SumTo(Rows(q), [row \in 0..(Rows(q) - 1) |->
                                 RMul(SecondCorrection[row], SecondCorrection[row])])))
      ]_vars

\* C21 witness: a second pass with a coefficient that is not zero has run
C21_Witness ==
    /\ kind = "CGS2" /\ pc = "running" /\ i = 2
    /\ work_vector[0] # Zero

\* column col of the argument after the finished columns 0..j-1 have been
\* projected out of it one after the other, each coefficient taken from the
\* vector as the previous ones left it
RECURSIVE LateCurrent(_, _)
LateCurrent(col, j) ==
    IF j = 0 THEN Column(a, col)
    ELSE LET prev == LateCurrent(col, j - 1)
         IN  ScaledAdd(prev, RNeg(Dot(Column(q, j - 1), prev)), Column(q, j - 1))

C23_Diagonal ==
    [][(kind \in {"CGS", "CGS2"} /\ pc = "running" /\ pc' = "running" /\ i' = i + 1) =>
          At(r', i, i) = Dot(Column(a, i), Column(q', i))
      ]_vars

\* C23 witness: iteration i - 1 > 0 of a CGS2 compute has run, its daxpy
\* added the scratch entry i - 1 left by an earlier iteration, which is not
\* zero, to R[i-1,i-1], and the diagonal entry is the dot product
C23_Witness ==
    /\ kind = "CGS2" /\ pc = "running" /\ i >= 2
    /\ work_vector[i - 1] # Zero
    /\ At(r, i - 1, i - 1) = Dot(Column(a, i - 1), Column(q, i - 1))
    /\ IsFinite(At(r, i - 1, i - 1))

\* the offsets dgemv reads in the buffer of Q as the matrix of n_rows rows and
\* col columns with the leading dimension of the layout
FinishedOffsets(mo, n_rows, n_cols, col) ==
    {IF mo = "RowMajor" THEN row * lda(mo, n_rows, n_cols) + c
                        ELSE row + c * lda(mo, n_rows, n_cols) :
        row \in 0..(n_rows - 1), c \in 0..(col - 1)}

\* the offsets of n elements from offset off with increment inc
VectorOffsets(off, inc, n) == {off + k * inc : k \in 0..(n - 1)}

\* C24: in every iteration i > 0 of a CGS or CGS2 compute the offsets of Q read
\* as the finished columns 0..i-1 are disjoint from the offsets written as
\* column i, and all the offsets used in Q, in R (i coefficients, and the
\* n_rows entries of the daxpy in CGS2) and in the scratch vector are inside
\* their buffers.
C24_NoAliasing ==
    (kind \in {"CGS", "CGS2"} /\ pc = "running" /\ i > 0 /\ i < Cols(q)) =>
        LET n_rows == Rows(q)
            n_cols == Cols(q)
            finished == FinishedOffsets(memory_order, n_rows, n_cols, i)
            current == VectorOffsets(q_column(memory_order, n_rows, i),
                                     q_inc(memory_order, n_cols), n_rows)
            coefficients == VectorOffsets(r_column(memory_order, n_rows, i),
                                          r_inc(memory_order, n_cols),
                                          IF kind = "CGS2" THEN n_rows ELSE i)
        IN  /\ finished \cap current = {}
            /\ finished \subseteq DOMAIN q.data
            /\ current \subseteq DOMAIN q.data
            /\ coefficients \subseteq DOMAIN r.data
            /\ kind = "CGS2" => VectorOffsets(0, 1, n_rows) \subseteq DOMAIN work_vector

\* C24 witness: a CGS2 engine with more rows than columns, in column-major
\* order, is about to run iteration 1
C24_Witness ==
    /\ kind = "CGS2" /\ pc = "running" /\ i = 1
    /\ Rows(q) > Cols(q)
    /\ memory_order = "ColumnMajor"

\* C25: after every compute that returns, Q is what a freshly constructed
\* engine of the same shape and order computes for the same argument: nothing
\* of what Q held before the call is left in it.
C25_QOverwritten ==
    Returned => q = compute_fresh(kind, q.dim, memory_order, a).q

\* C26: GramSchmidt::compute_into leaves the orth and the norm that
\* GramSchmidt::compute returns for the same a, whatever orth held before.
C26_DependsOnlyOnA ==
    (kind = "GS" /\ api = "compute_into" /\ pc = "done") =>
        /\ orth = gs_compute(a).orth
        /\ norm = gs_compute(a).norm

\* C27: in a one-shot compute(a) of a row-wise trait the norm vector has one
\* entry per row of a, and no store norm[i] of the loop is out of bounds.
C27_NormPerRow ==
    (api = "compute" /\ pc \notin {"call", "rows_call"}) =>
        /\ DOMAIN norm = 0..(Rows(a) - 1)
        /\ err # "index out of bounds"

C29_NoNormSameMatrix ==
    (api = "compute_inplace_no_norm" /\ pc \in {"done", "panic"}) =>
        LET n_rows == Rows(entry.orth)
            with_norm == mgs_compute_inplace(entry.orth, default1(n_rows), TRUE)
            without == mgs_compute_inplace(entry.orth, entry.norm, FALSE)
            parallel == early_projection(entry.orth, default1(n_rows), 0, n_rows, TRUE)
        IN  /\ norm = entry.norm
            /\ without.panic = with_norm.panic
            /\ without.orth = with_norm.orth
            /\ without.norm = entry.norm
            /\ (kind = "SMGS" /\ pc = "done") => (with_norm.panic = "" /\ orth = with_norm.orth)
            /\ (kind = "SMGS" /\ pc = "panic") => (with_norm.panic = err /\ orth = with_norm.orth)
            /\ (kind = "PMGS" /\ pc = "done") => orth = parallel.orth

\* C29 witness: the parallel compute_inplace_no_norm has returned the
\* orthonormal rows of P3, and no norm
C29_Witness ==
    /\ kind = "PMGS" /\ api = "compute_inplace_no_norm" /\ pc = "done"
    /\ entry.orth = arr2(P3)
    /\ Row(orth, 1) = [k \in 0..2 |-> Reduce(IF k = 2 THEN -2 ELSE IF k = 0 THEN 2 ELSE 1, 3)]
    /\ norm = <<>>

\* C30: a row is divided by its norm only when the norm is not zero: when the
\* head of an iteration of the parallel engine has divided row i and the tasks
\* are created, the norm of the row as it was before the division is not zero.
C30_NoZeroNorm ==
    (kind = "PMGS" /\ pc = "fanout") => normalization(v_before) # Zero

====
